---- MODULE Spec2Model ----
(***************************************************************************)
(* Model of packages/mcp/src/tools/client/commit.ts:                       *)
(*   - commit(params): the MCP "commit" tool, which resolves a target      *)
(*     branch against the stack listing and dispatches `but commit`;      *)
(*   - StackService / injectEndpoints: the desktop client's tagged query   *)
(*     cache over the backend commands.                                    *)
(***************************************************************************)
EXTENDS Integers, Sequences, FiniteSets, TLC

(***************************************************************************)
(* Bounds of the model.                                                    *)
(***************************************************************************)
MaxStacks == 2
MaxPaths == 2
MaxRuns == 2
MaxPending == 2

BranchNames == {"a", "b"}
Paths == {"f", "g"}
Messages == {"m"}

VARIABLES
  params,       \* CommitParams of the request: message, all, filePaths, branch
  pc,           \* position inside commit(): "idle", "commit", "listStacks",
                \* "for", "listStackBranches", "execute", "returned", "thrown"
  args,         \* the local `args` array of commit()
  stacks,       \* the local `stacks` (result of listStacks)
  idx,          \* position of the for..of iteration over `stacks`
  calls,        \* backend calls issued by the current run, in order
  error,        \* message of the Error thrown by the current run, <<>> if none
  repoStacks,   \* the project's stack listing as the backend reports it
  repoBranches, \* per stack id: the branch list as the backend reports it
  outcomes,     \* history: the resolution of every run whose fetches were answered
  result,       \* what getCommitToolRequestHandler returned for the current request
  repoArchived, \* per stack id: whether the backend holds the target branch as archived
  cache,        \* desktop client: state of every cached read, by cache key
  requests,     \* per cache key: the backend requests in flight for it
  pending,      \* desktop client: number of in-flight mutations per endpoint
  lastEvent,    \* history: the step the cache layer took last
  response,         \* desktop client: the array stack_branches last answered with
  entityState,      \* the stored result of transformResponse for it
  branches,         \* what getStackBranches exposes: selectAll of the stored result
  previousResponse, \* the answer before the last one
  previousBranches, \* what was exposed for it
  branchByIndex     \* the last getBranchByIndex: the index asked and the value exposed

commitVars == <<params, pc, args, stacks, idx, calls, error, repoStacks, repoBranches, outcomes,
                result, repoArchived>>

cacheVars == <<cache, requests, pending, lastEvent>>

viewVars == <<response, entityState, branches, previousResponse, previousBranches, branchByIndex>>

vars == <<params, pc, args, stacks, idx, calls, error, repoStacks, repoBranches, outcomes,
          result, repoArchived, cache, requests, pending, lastEvent,
          response, entityState, branches, previousResponse, previousBranches, branchByIndex>>

(***************************************************************************)
(* Data.                                                                   *)
(***************************************************************************)
SeqsUpTo(S, n) == UNION {[1..k -> S] : k \in 0..n}

\* The sequences over S in which no element occurs twice.
DistinctSeqs(S) ==
  {s \in SeqsUpTo(S, Cardinality(S)) : \A i, j \in 1..Len(s) : i # j => s[i] # s[j]}

Range(s) == {s[k] : k \in 1..Len(s)}

\* CommitParamsSchema: message, all (default false), filePaths (default []), branch
CommitParams ==
  [message : Messages, all : BOOLEAN, filePaths : SeqsUpTo(Paths, MaxPaths), branch : BranchNames]

\* A head of a stack: only its name is read.
BranchHead == [name : BranchNames]

\* A record of a stack's branch list: name and archived flag are read.
WorkspaceBranch == [name : BranchNames, archived : BOOLEAN]

\* The heads of one stack: at least one, and distinct branches.
HeadLists == DistinctSeqs(BranchHead) \ {<<>>}

\* A stack listing of n stacks: the stack at position k has id k. The same
\* branch name may be listed by more than one stack.
StackListings ==
  UNION {{[k \in 1..n |-> [id |-> k, heads |-> h[k]]] : h \in [1..n -> HeadLists]} :
           n \in 0..MaxStacks}

\* The branch list of one stack: records of distinct names, in any order.
BranchLists ==
  {s \in SeqsUpTo(WorkspaceBranch, Cardinality(BranchNames)) :
     \A i, j \in 1..Len(s) : i # j => s[i].name # s[j].name}

\* What the client has seen of the backend's state: nothing before the first
\* fetch, the fetched value afterwards.
Unknown == {}

Known(v) == {v}

\* The opaque message of a failure of the backend command channel.
BackendError == <<"backend command failed">>

(***************************************************************************)
(* Pure parts of commit().                                                 *)
(***************************************************************************)
\* Variant: the exclusivity check tolerates a single path.
allWithFilePathsLax(p) == p.all /\ Len(p.filePaths) > 1

\* lines 28-29: params.all && params.filePaths.length > 0
allWithFilePaths(p) == p.all /\ Len(p.filePaths) > 0

\* Variant: every entry carries the first path of the list.
buildDiffSpecFirstPath(filePaths) ==
  [k \in 1..Len(filePaths) |-> [pathBytes |-> filePaths[1], hunkHeaders |-> <<>>]]

\* lines 35-41: one DiffSpec per path, hunkHeaders empty
buildDiffSpec(filePaths) ==
  [k \in 1..Len(filePaths) |-> [pathBytes |-> filePaths[k], hunkHeaders |-> <<>>]]

RECURSIVE JoinTokens(_)
JoinTokens(parts) ==
  IF Len(parts) = 0 THEN <<>>
  ELSE IF Len(parts) = 1 THEN parts[1]
  ELSE parts[1] \o <<",">> \o JoinTokens(Tail(parts))

\* line 43: JSON.stringify(diffSpec), as the sequence of JSON tokens it emits
JSONstringify(diffSpec) ==
  <<"[">> \o
  JoinTokens([k \in 1..Len(diffSpec) |->
     <<"{", "pathBytes", ":", diffSpec[k].pathBytes, ",", "hunkHeaders", ":", "[", "]", "}">>]) \o
  <<"]">>

\* lines 26, 34-45: the arguments before the target is known
initialArgs(p) ==
  IF Len(p.filePaths) > 0
  THEN <<"commit", "--message", p.message, "--diff-spec", JSONstringify(buildDiffSpec(p.filePaths))>>
  ELSE <<"commit", "--message", p.message>>

\* line 54: stack.heads.map((h) => h.name)
headNames(stack) == [k \in 1..Len(stack.heads) |-> stack.heads[k].name]

\* Variant: only the first head of the stack is compared.
includesFirstOnly(heads, name) == heads[1] = name

\* line 55: heads.includes(params.branch)
includes(heads, name) == \E k \in 1..Len(heads) : heads[k] = name

\* Variant: the single-head shortcut never applies.
singleHeadNever(heads) == Len(heads) < 1

\* line 56: heads.length === 1
singleHead(heads) == Len(heads) = 1

\* Variant: the first record of the list is taken whatever its name.
findIndexFirst(stackBranches, name) == IF Len(stackBranches) > 0 THEN 1 ELSE 0

\* line 70: stackBranches.find((b) => b.name === params.branch): position of
\* the first record of that name, 0 when there is none
findIndex(stackBranches, name) ==
  IF \E k \in 1..Len(stackBranches) : stackBranches[k].name = name
  THEN CHOOSE k \in 1..Len(stackBranches) :
         /\ stackBranches[k].name = name
         /\ \A j \in 1..(k - 1) : stackBranches[j].name # name
  ELSE 0

\* Variant: the archived flag is read inverted.
isArchivedInverted(branch) == ~branch.archived

\* line 75: branch.archived
isArchived(branch) == branch.archived

\* The messages of the errors commit() throws.
msgAllAndFilePaths == <<"Cannot use --all and file paths together">>

msgNoStacks == <<"No stacks found">>

msgNoBranchesInStack(stackId) == <<"No branches found in stack ", ToString(stackId)>>

msgBranchNotInStack(branch, stackId) ==
  <<"Branch ", branch, " not found in stack ", ToString(stackId)>>

msgArchived(branch) == <<"Branch ", branch, " is archived">>

\* Variant: the final error does not interpolate the branch name.
msgNotInAnyStackNameless(branch) == <<"Branch not found in any stack">>

msgNotInAnyStack(branch) == <<"Branch ", branch, " not found in any stack">>

(***************************************************************************)
(* getCommitToolRequestHandler: the tool names and the results it builds.  *)
(***************************************************************************)
ToolNames == {"commit", "status"}

\* lines 87-99: isToolName over TOOL_LISTINGS,.some((tool) => tool.name === name)
isToolName(name) == name \in {"commit"}

\* The messages of the errors CommitParamsSchema.parse throws.
ParseErrors == {<<"message: Required">>, <<"branch: Required">>}

\* No result yet: the handler has not returned.
NoResult == [pending |-> TRUE]

\* line 114: return null
NullResult == [null |-> TRUE]

\* line 122
successResult == [content |-> <<[type |-> "text", text |-> <<"Commit successful">>]>>]

\* Variant: the failure is reported without the error flag.
errorResultUnflagged(message) ==
  [content |-> <<[type |-> "text", text |-> <<"Error: ">> \o message]>>]

\* line 125: the text is `Error: ${error.message}`
errorResult(message) ==
  [content |-> <<[type |-> "text", text |-> <<"Error: ">> \o message]>>, isError |-> TRUE]

(***************************************************************************)
(* History: what a run resolved to, once its fetches have been answered.   *)
(***************************************************************************)
Dispatched(stackId, a) == [kind |-> "dispatched", stack |-> stackId, args |-> a]

Failed(msg) == [kind |-> "error", message |-> msg]

(***************************************************************************)
(* The tagged query cache of the desktop client (injectEndpoints).         *)
(***************************************************************************)
ProjectIds == {"p"}

CommitIds == {"c1"}

ReduxTags == {"Stacks", "StackBranches", "Commit", "CommitChanges"}

QueryEndpoints == {"getStacks", "getStackBranches", "getCommitChanges"}

MutationEndpoints == {"createStack", "createCommit", "updateCommitMessage"}

\* lines 296-339: the backend command each endpoint's query() names
command(endpoint) ==
  CASE endpoint = "getStacks" -> "stacks"
    [] endpoint = "createStack" -> "create_virtual_branch"
    [] endpoint = "getStackBranches" -> "stack_branches"
    [] endpoint = "createCommit" -> "create_commit_from_worktree_changes"
    [] endpoint = "getCommitChanges" -> "changes_in_commit"
    [] endpoint = "updateCommitMessage" -> "update_commit_message"

\* lines 297, 314, 331: providesTags of the query endpoints
providesTags(endpoint) ==
  CASE endpoint = "getStacks" -> {"Stacks"}
    [] endpoint = "getStackBranches" -> {"StackBranches"}
    [] endpoint = "getCommitChanges" -> {"CommitChanges"}
    [] OTHER -> {}

\* Variant: every mutation also invalidates the stack listing.
invalidatesTagsWithStacks(endpoint) ==
  CASE endpoint = "createStack" -> {"Stacks"}
    [] endpoint = "createCommit" -> {"Stacks", "StackBranches", "Commit"}
    [] endpoint = "updateCommitMessage" -> {"Stacks", "StackBranches"}
    [] OTHER -> {}

\* lines 304, 324, 341: invalidatesTags of the mutation endpoints
invalidatesTags(endpoint) ==
  CASE endpoint = "createStack" -> {"Stacks"}
    [] endpoint = "createCommit" -> {"StackBranches", "Commit"}
    [] endpoint = "updateCommitMessage" -> {"StackBranches"}
    [] OTHER -> {}

\* A cached read is keyed by the command and its parameters (lines 296, 310-313, 327-330).
CacheKeys ==
  {[command |-> command("getStacks"), endpoint |-> "getStacks", params |-> [projectId |-> p]] :
     p \in ProjectIds}
  \cup {[command |-> command("getStackBranches"), endpoint |-> "getStackBranches",
         params |-> [projectId |-> p, stackId |-> s]] : p \in ProjectIds, s \in 1..MaxStacks}
  \cup {[command |-> command("getCommitChanges"), endpoint |-> "getCommitChanges",
         params |-> [projectId |-> p, commitId |-> c]] : p \in ProjectIds, c \in CommitIds}

\* The error categories a mutation can end with.
ErrorKinds == {"ValidationError", "NotFoundError", "ConflictError", "BackendError"}

InFlight == pending["createStack"] + pending["createCommit"] + pending["updateCommitMessage"]

\* The reads a fulfilled mutation invalidates: those providing a tag it names.
overlaps(key, mutation) == providesTags(key.endpoint) \cap invalidatesTags(mutation) # {}

CacheStart ==
  /\ cache = [k \in CacheKeys |-> "Uninitialized"]
  /\ requests = [k \in CacheKeys |-> 0]
  /\ pending = [m \in MutationEndpoints |-> 0]
  /\ lastEvent = [kind |-> "none"]

(***************************************************************************)
(* The branch view of the desktop client: branchAdapter, the stored entity *)
(* state and the selectors over it.                                        *)
(***************************************************************************)
\* The branch names of the view, in the order of the collation.
Alphabet == <<"a", "b", "c">>

ViewNames == Range(Alphabet)

Rank(name) == CHOOSE k \in 1..Len(Alphabet) : Alphabet[k] = name

\* The branch records the backend may hold for the stack.
ViewBranches ==
  {[name |-> "a", archived |-> FALSE], [name |-> "a", archived |-> TRUE],
   [name |-> "b", archived |-> FALSE], [name |-> "c", archived |-> TRUE]}

\* The answers of stack_branches: the branches of one stack, in any order.
Responses ==
  {r \in SeqsUpTo(ViewBranches, Len(Alphabet)) :
     \A i, j \in 1..Len(r) : i # j => r[i].name # r[j].name}

\* The indices getBranchByIndex is asked for; a negative one counts from
\* the end.
Indices == -1..Len(Alphabet)

\* line 348
selectId(change) == change.name

\* String.prototype.localeCompare on the names: negative, zero or positive.
localeCompare(a, b) ==
  IF Rank(a) < Rank(b) THEN -1 ELSE IF Rank(a) > Rank(b) THEN 1 ELSE 0

\* Variant: the comparer orders nothing.
sortComparerNone(a, b) == 0

\* line 349
sortComparer(a, b) == localeCompare(a.name, b.name)

\* branchAdapter.getInitialState()
getInitialState == [ids |-> <<>>, entities |-> [id \in {} |-> id]]

\* The place of a new entity among sorted ones: behind every entity the
\* comparer does not put after it.
insert(sorted, item) ==
  LET before == {k \in 0..Len(sorted) :
                   \A i \in 1..k : sortComparer(sorted[i], item) <= 0}
      at == CHOOSE k \in before : \A other \in before : other <= k
  IN SubSeq(sorted, 1, at) \o <<item>> \o SubSeq(sorted, at + 1, Len(sorted))

RECURSIVE sort(_)
sort(items) ==
  IF Len(items) = 0 THEN <<>>
  ELSE insert(sort(SubSeq(items, 1, Len(items) - 1)), items[Len(items)])

\* branchAdapter.addMany(state, response): the records whose id the state
\* does not hold are stored under their id, and the ids are kept in the
\* order of the comparer.
addMany(state, added) ==
  LET news == {k \in 1..Len(added) : selectId(added[k]) \notin DOMAIN state.entities}
      entities == [id \in DOMAIN state.entities \cup {selectId(added[k]) : k \in news} |->
                     IF id \in DOMAIN state.entities
                     THEN state.entities[id]
                     ELSE added[CHOOSE k \in news : selectId(added[k]) = id]]
      held == [k \in 1..Len(state.ids) |-> state.entities[state.ids[k]]]
      fresh == SelectSeq(added, LAMBDA record : selectId(record) \notin DOMAIN state.entities)
      sorted == sort(held \o fresh)
  IN [ids |-> [k \in 1..Len(sorted) |-> selectId(sorted[k])], entities |-> entities]

\* lines 315-317
transformResponse(answer) == addMany(getInitialState, answer)

\* branchSelectors.selectAll
selectAll(state) == [k \in 1..Len(state.ids) |-> state.entities[state.ids[k]]]

\* Array.prototype.at: undefined (no value) outside the array
at(array, index) ==
  LET k == IF index >= 0 THEN index + 1 ELSE Len(array) + index + 1
  IN IF k \in 1..Len(array) THEN Known(array[k]) ELSE Unknown

NotAsked == [asked |-> FALSE]

ViewStart ==
  /\ response = <<>>
  /\ entityState = getInitialState
  /\ branches = <<>>
  /\ previousResponse = <<>>
  /\ previousBranches = <<>>
  /\ branchByIndex = NotAsked

(***************************************************************************)
(* Initial state: a request is chosen, commit() has not been called, and   *)
(* nothing of the backend's state has been observed.                       *)
(***************************************************************************)
Init ==
  /\ params \in CommitParams
  /\ pc = "idle"
  /\ args = <<>>
  /\ stacks = <<>>
  /\ idx = 0
  /\ calls = <<>>
  /\ error = <<>>
  /\ repoStacks = Unknown
  /\ repoBranches = [s \in 1..MaxStacks |-> Unknown]
  /\ outcomes = <<>>
  /\ result = NoResult
  /\ repoArchived = [s \in 1..MaxStacks |-> Unknown]
  /\ CacheStart
  /\ ViewStart

(***************************************************************************)
(* commit(params), one action per stretch of code between backend calls.   *)
(***************************************************************************)
\* The handler is not in the middle of a request.
HandlerIdle == pc = "idle" \/ (pc \in {"returned", "thrown"} /\ result # NoResult)

\* lines 113-115: the tool is not 'commit' or there is no GitButler
\* executable: the handler returns null
Decline ==
  /\ HandlerIdle
  /\ \E toolName \in ToolNames, hasGitButlerExecutable \in BOOLEAN :
       /\ ~(isToolName(toolName) /\ hasGitButlerExecutable)
       /\ result' = NullResult
  /\ pc' = "idle"
  /\ args' = <<>>
  /\ stacks' = <<>>
  /\ idx' = 0
  /\ calls' = <<>>
  /\ error' = <<>>
  /\ UNCHANGED <<params, repoStacks, repoBranches, outcomes, repoArchived>>
  /\ UNCHANGED <<cacheVars, viewVars>>

\* lines 120, 123-126: the raw parameters do not fit CommitParamsSchema and
\* parse throws; commit() is not called
ParseThrows ==
  /\ HandlerIdle
  /\ \E message \in ParseErrors : result' = errorResult(message)
  /\ pc' = "idle"
  /\ args' = <<>>
  /\ stacks' = <<>>
  /\ idx' = 0
  /\ calls' = <<>>
  /\ error' = <<>>
  /\ UNCHANGED <<params, repoStacks, repoBranches, outcomes, repoArchived>>
  /\ UNCHANGED <<cacheVars, viewVars>>

\* lines 122-128: commit() has returned or thrown and the handler returns
\* its result
Reply ==
  /\ pc \in {"returned", "thrown"}
  /\ result = NoResult
  /\ result' = IF pc = "returned" THEN successResult ELSE errorResult(error)
  /\ UNCHANGED <<params, pc, args, stacks, idx, calls, error, repoStacks, repoBranches, outcomes,
                 repoArchived>>
  /\ UNCHANGED <<cacheVars, viewVars>>

\* The backend runs the commit command against its own state of the target
\* branch: archived or not, in agreement with what has been seen of it.
ObserveArchived ==
  LET stackId == stacks[idx].id IN
  \E archived \in BOOLEAN :
    /\ \A list \in repoBranches[stackId] :
         \A r \in 1..Len(list) : list[r].name = params.branch => list[r].archived = archived
    /\ repoArchived[stackId] # Unknown => repoArchived[stackId] = Known(archived)
    /\ repoArchived' = [repoArchived EXCEPT ![stackId] = Known(archived)]

\* The tool handler calls commit(parsedParams) (lines 120-121); the same
\* request may be issued again after the previous one has been answered,
\* until MaxRuns runs have resolved.
Call ==
  /\ HandlerIdle
  /\ Len(outcomes) < MaxRuns
  /\ pc' = "commit"
  /\ args' = <<>>
  /\ stacks' = <<>>
  /\ idx' = 0
  /\ calls' = <<>>
  /\ error' = <<>>
  /\ result' = NoResult
  /\ UNCHANGED <<params, repoStacks, repoBranches, outcomes, repoArchived>>
  /\ UNCHANGED <<cacheVars, viewVars>>

\* lines 26-45
Begin ==
  /\ pc = "commit"
  /\ IF allWithFilePaths(params)
     THEN /\ pc' = "thrown"
          /\ error' = msgAllAndFilePaths
          /\ args' = <<"commit", "--message", params.message>>
          /\ outcomes' = Append(outcomes, Failed(msgAllAndFilePaths))
     ELSE /\ pc' = "listStacks"
          /\ args' = initialArgs(params)
          /\ UNCHANGED <<error, outcomes>>
  /\ UNCHANGED <<params, stacks, idx, calls, repoStacks, repoBranches>>
  /\ UNCHANGED <<result, repoArchived>>
  /\ UNCHANGED <<cacheVars, viewVars>>

\* lines 47-51, the listing arrives
ListStacksReturns ==
  /\ pc = "listStacks"
  /\ calls' = Append(calls, [command |-> "stacks"])
  /\ \E listing \in StackListings :
       /\ repoStacks # Unknown => repoStacks = Known(listing)
       /\ repoStacks' = Known(listing)
       /\ IF Len(listing) = 0
          THEN /\ pc' = "thrown"
               /\ error' = msgNoStacks
               /\ outcomes' = Append(outcomes, Failed(msgNoStacks))
               /\ UNCHANGED <<stacks, idx>>
          ELSE /\ pc' = "for"
               /\ stacks' = listing
               /\ idx' = 1
               /\ UNCHANGED <<error, outcomes>>
  /\ UNCHANGED <<params, args, repoBranches>>
  /\ UNCHANGED <<result, repoArchived>>
  /\ UNCHANGED <<cacheVars, viewVars>>

\* line 47, the backend call itself fails and listStacks throws
ListStacksThrows ==
  /\ pc = "listStacks"
  /\ calls' = Append(calls, [command |-> "stacks"])
  /\ pc' = "thrown"
  /\ error' = BackendError
  /\ UNCHANGED <<params, args, stacks, idx, repoStacks, repoBranches, outcomes>>
  /\ UNCHANGED <<result, repoArchived>>
  /\ UNCHANGED <<cacheVars, viewVars>>

\* Variant: the stacks are visited in no particular order.
ForStackAnyOrder ==
  /\ pc = "for"
  /\ LET matching == {k \in 1..Len(stacks) : includes(headNames(stacks[k]), params.branch)} IN
     IF matching = {}
     THEN /\ pc' = "thrown"
          /\ error' = <<"Branch ", params.branch, " not found in any stack">>
          /\ outcomes' = Append(outcomes, Failed(<<"Branch ", params.branch, " not found in any stack">>))
          /\ UNCHANGED <<args, idx>>
     ELSE \E k \in matching :
            /\ idx' = k
            /\ IF Len(stacks[k].heads) = 1
               THEN /\ args' = args \o <<"-s", params.branch>>
                    /\ pc' = "execute"
                    /\ outcomes' = Append(outcomes,
                         Dispatched(stacks[k].id, args \o <<"-s", params.branch>>))
                    /\ UNCHANGED error
               ELSE /\ pc' = "listStackBranches"
                    /\ UNCHANGED <<args, error, outcomes>>
  /\ UNCHANGED <<params, stacks, calls, repoStacks, repoBranches>>
  /\ UNCHANGED <<result, repoArchived>>
  /\ UNCHANGED <<cacheVars, viewVars>>

\* lines 53-60 and 82-84: one iteration of the loop, or its exhaustion
ForStack ==
  /\ pc = "for"
  /\ IF idx > Len(stacks)
     THEN /\ pc' = "thrown"
          /\ error' = msgNotInAnyStack(params.branch)
          /\ outcomes' = Append(outcomes, Failed(msgNotInAnyStack(params.branch)))
          /\ UNCHANGED <<args, idx>>
     ELSE LET heads == headNames(stacks[idx]) IN
          IF includes(heads, params.branch)
          THEN IF singleHead(heads)
               THEN /\ args' = args \o <<"-s", params.branch>>
                    /\ pc' = "execute"
                    /\ outcomes' = Append(outcomes,
                         Dispatched(stacks[idx].id, args \o <<"-s", params.branch>>))
                    /\ UNCHANGED <<idx, error>>
               ELSE /\ pc' = "listStackBranches"
                    /\ UNCHANGED <<args, idx, error, outcomes>>
          ELSE /\ idx' = idx + 1
               /\ UNCHANGED <<pc, args, error, outcomes>>
  /\ UNCHANGED <<params, stacks, calls, repoStacks, repoBranches>>
  /\ UNCHANGED <<result, repoArchived>>
  /\ UNCHANGED <<cacheVars, viewVars>>

\* lines 62-80, the branch list of the matching stack arrives
ListStackBranchesReturns ==
  /\ pc = "listStackBranches"
  /\ LET stackId == stacks[idx].id IN
     /\ calls' = Append(calls, [command |-> "stack_branches", stack_id |-> stackId])
     /\ \E stackBranches \in BranchLists :
          /\ repoBranches[stackId] # Unknown => repoBranches[stackId] = Known(stackBranches)
          /\ repoBranches' = [repoBranches EXCEPT ![stackId] = Known(stackBranches)]
          /\ LET found == findIndex(stackBranches, params.branch)
                 msg == IF Len(stackBranches) = 0 THEN msgNoBranchesInStack(stackId)
                        ELSE IF found = 0 THEN msgBranchNotInStack(params.branch, stackId)
                        ELSE IF isArchived(stackBranches[found]) THEN msgArchived(params.branch)
                        ELSE <<>>
             IN IF msg # <<>>
                THEN /\ pc' = "thrown"
                     /\ error' = msg
                     /\ outcomes' = Append(outcomes, Failed(msg))
                     /\ UNCHANGED args
                ELSE /\ args' = args \o <<"-s", params.branch>>
                     /\ pc' = "execute"
                     /\ outcomes' = Append(outcomes,
                          Dispatched(stackId, args \o <<"-s", params.branch>>))
                     /\ UNCHANGED error
  /\ UNCHANGED <<params, stacks, idx, repoStacks>>
  /\ UNCHANGED <<result, repoArchived>>
  /\ UNCHANGED <<cacheVars, viewVars>>

\* line 62, the backend call itself fails and listStackBranches throws
ListStackBranchesThrows ==
  /\ pc = "listStackBranches"
  /\ calls' = Append(calls, [command |-> "stack_branches", stack_id |-> stacks[idx].id])
  /\ pc' = "thrown"
  /\ error' = BackendError
  /\ UNCHANGED <<params, args, stacks, idx, repoStacks, repoBranches, outcomes>>
  /\ UNCHANGED <<result, repoArchived>>
  /\ UNCHANGED <<cacheVars, viewVars>>

\* lines 59 and 80: executeGitButlerCommand(project_directory, args) succeeds
ExecuteReturns ==
  /\ pc = "execute"
  /\ calls' = Append(calls, [command |-> "commit", args |-> args])
  /\ pc' = "returned"
  /\ UNCHANGED <<params, args, stacks, idx, error, repoStacks, repoBranches, outcomes>>
  /\ ObserveArchived
  /\ UNCHANGED result
  /\ UNCHANGED <<cacheVars, viewVars>>

\* Variant: a failed command is issued again instead of being reported.
ExecuteThrowsRetry ==
  /\ pc = "execute"
  /\ calls' = Append(calls, [command |-> "commit", args |-> args])
  /\ UNCHANGED <<params, pc, args, stacks, idx, error, repoStacks, repoBranches, outcomes>>
  /\ ObserveArchived
  /\ UNCHANGED result
  /\ UNCHANGED <<cacheVars, viewVars>>

\* lines 59 and 80: executeGitButlerCommand throws
ExecuteThrows ==
  /\ pc = "execute"
  /\ calls' = Append(calls, [command |-> "commit", args |-> args])
  /\ pc' = "thrown"
  /\ error' = BackendError
  /\ UNCHANGED <<params, args, stacks, idx, repoStacks, repoBranches, outcomes>>
  /\ ObserveArchived
  /\ UNCHANGED result
  /\ UNCHANGED <<cacheVars, viewVars>>

Next ==
  \/ Decline
  \/ ParseThrows
  \/ Call
  \/ Reply
  \/ Begin
  \/ ListStacksReturns
  \/ ListStacksThrows
  \/ ForStack
  \/ ListStackBranchesReturns
  \/ ListStackBranchesThrows
  \/ ExecuteReturns
  \/ ExecuteThrows

Spec == Init /\ [][Next]_vars

(***************************************************************************)
(* The cache layer, one action per step of a read or a mutation.           *)
(***************************************************************************)
\* Variant: a read of a key that is being fetched sends a request of its own.
ReadAlwaysRequests(key) ==
  /\ requests[key] < 2
  /\ cache' = IF cache[key] \in {"Uninitialized", "Stale", "Fetching"}
              THEN [cache EXCEPT ![key] = "Fetching"]
              ELSE cache
  /\ requests' = IF cache[key] \in {"Uninitialized", "Stale", "Fetching"}
                 THEN [requests EXCEPT ![key] = @ + 1]
                 ELSE requests
  /\ lastEvent' = [kind |-> "read", key |-> key]
  /\ UNCHANGED pending
  /\ UNCHANGED <<commitVars, viewVars>>

\* A caller reads a key (useQuery, lines 238-280): an entry that was never
\* fetched or is stale starts a fetch, which sends one request to the
\* backend; a fresh entry is served; a read of a key that is being fetched
\* waits for that fetch.
Read(key) ==
  /\ cache' = IF cache[key] \in {"Uninitialized", "Stale"}
              THEN [cache EXCEPT ![key] = "Fetching"]
              ELSE cache
  /\ requests' = IF cache[key] \in {"Uninitialized", "Stale"}
                 THEN [requests EXCEPT ![key] = @ + 1]
                 ELSE requests
  /\ lastEvent' = [kind |-> "read", key |-> key]
  /\ UNCHANGED pending
  /\ UNCHANGED <<commitVars, viewVars>>

\* The backend answers the fetch of a key: the answer settles every read
\* that waits for it.
FetchFulfilled(key) ==
  /\ cache[key] = "Fetching"
  /\ cache' = [cache EXCEPT ![key] = "Fresh"]
  /\ requests' = [requests EXCEPT ![key] = 0]
  /\ lastEvent' = [kind |-> "fetched", key |-> key]
  /\ UNCHANGED pending
  /\ UNCHANGED <<commitVars, viewVars>>

\* A caller triggers a mutation (useMutation, lines 245-288): the command is
\* sent to the backend.
StartMutation(mutation) ==
  /\ InFlight < MaxPending
  /\ pending' = [pending EXCEPT ![mutation] = @ + 1]
  /\ lastEvent' = [kind |-> "started", endpoint |-> mutation]
  /\ UNCHANGED <<cache, requests>>
  /\ UNCHANGED <<commitVars, viewVars>>

\* Variant: a failed mutation invalidates like a successful one.
MutationRejectedInvalidates(mutation, kind) ==
  /\ pending[mutation] > 0
  /\ pending' = [pending EXCEPT ![mutation] = @ - 1]
  /\ cache' = [k \in CacheKeys |->
                 IF cache[k] = "Fresh" /\ overlaps(k, mutation) THEN "Stale" ELSE cache[k]]
  /\ UNCHANGED requests
  /\ lastEvent' = [kind |-> "rejected", endpoint |-> mutation, error |-> kind]
  /\ UNCHANGED <<commitVars, viewVars>>

\* The backend acknowledges a mutation: every fresh read providing one of
\* its invalidated tags becomes stale, in this one step.
MutationFulfilled(mutation) ==
  /\ pending[mutation] > 0
  /\ pending' = [pending EXCEPT ![mutation] = @ - 1]
  /\ cache' = [k \in CacheKeys |->
                 IF cache[k] = "Fresh" /\ overlaps(k, mutation) THEN "Stale" ELSE cache[k]]
  /\ UNCHANGED requests
  /\ lastEvent' = [kind |-> "fulfilled", endpoint |-> mutation]
  /\ UNCHANGED <<commitVars, viewVars>>

\* A mutation ends in an error: the cache is left as it is.
MutationRejected(mutation, kind) ==
  /\ pending[mutation] > 0
  /\ pending' = [pending EXCEPT ![mutation] = @ - 1]
  /\ lastEvent' = [kind |-> "rejected", endpoint |-> mutation, error |-> kind]
  /\ UNCHANGED <<cache, requests>>
  /\ UNCHANGED <<commitVars, viewVars>>

CacheInit ==
  /\ params = [message |-> "m", all |-> FALSE, filePaths |-> <<>>, branch |-> "a"]
  /\ pc = "idle"
  /\ args = <<>>
  /\ stacks = <<>>
  /\ idx = 0
  /\ calls = <<>>
  /\ error = <<>>
  /\ repoStacks = Unknown
  /\ repoBranches = [s \in 1..MaxStacks |-> Unknown]
  /\ outcomes = <<>>
  /\ result = NoResult
  /\ repoArchived = [s \in 1..MaxStacks |-> Unknown]
  /\ CacheStart
  /\ ViewStart

CacheNext ==
  \/ \E key \in CacheKeys : Read(key)
  \/ \E key \in CacheKeys : FetchFulfilled(key)
  \/ \E mutation \in MutationEndpoints : StartMutation(mutation)
  \/ \E mutation \in MutationEndpoints : MutationFulfilled(mutation)
  \/ \E mutation \in MutationEndpoints, kind \in ErrorKinds : MutationRejected(mutation, kind)

CacheSpec == CacheInit /\ [][CacheNext]_vars

(***************************************************************************)
(* The branch view: a fetch of the branches of a stack and a read of one   *)
(* branch by its index.                                                    *)
(***************************************************************************)
\* lines 251-257, 306-318: stack_branches answers, the answer is stored
\* through transformResponse and exposed through selectAll
GetStackBranches(answer) ==
  /\ response' = answer
  /\ entityState' = transformResponse(answer)
  /\ branches' = selectAll(transformResponse(answer))
  /\ previousResponse' = response
  /\ previousBranches' = branches
  /\ branchByIndex' = NotAsked
  /\ UNCHANGED <<commitVars, cacheVars>>

\* lines 259-268
GetBranchByIndex(index) ==
  /\ branchByIndex' = [asked |-> TRUE, index |-> index, value |-> at(selectAll(entityState), index)]
  /\ UNCHANGED <<response, entityState, branches, previousResponse, previousBranches>>
  /\ UNCHANGED <<commitVars, cacheVars>>

ViewInit == CacheInit

ViewNext ==
  \/ \E answer \in Responses : GetStackBranches(answer)
  \/ \E index \in Indices : GetBranchByIndex(index)

ViewSpec == ViewInit /\ [][ViewNext]_vars

CacheTypeOK ==
  /\ cache \in [CacheKeys -> {"Uninitialized", "Fetching", "Fresh", "Stale"}]
  /\ requests \in [CacheKeys -> 0..1]
  /\ pending \in [MutationEndpoints -> 0..MaxPending]
  /\ InFlight <= MaxPending

TypeOK ==
  /\ params \in CommitParams
  /\ pc \in {"idle", "commit", "listStacks", "for", "listStackBranches", "execute", "returned", "thrown"}
  /\ Len(calls) <= 3
  /\ Len(outcomes) <= MaxRuns

(***************************************************************************)
(* Vocabulary of the properties of commit().                               *)
(***************************************************************************)
\* The errors of commit() are plain Errors; the taxonomy reads their text.
ValidationTexts == {"Cannot use --all and file paths together"}

NotFoundTexts ==
  {"No stacks found", "No branches found in stack ", " not found in stack ", " not found in any stack"}

ConflictTexts == {" is archived"}

IsValidationError(e) == Range(e) \cap ValidationTexts # {}

IsNotFoundError(e) == Range(e) \cap NotFoundTexts # {}

IsConflictError(e) == Range(e) \cap ConflictTexts # {}

Mentions(e, name) == name \in Range(e)

CommandsIssued == {calls[k].command : k \in 1..Len(calls)}

CommitCalls == {k \in 1..Len(calls) : calls[k].command = "commit"}

BranchFetches == {k \in 1..Len(calls) : calls[k].command = "stack_branches"}

\* The stack listing has arrived in the current run.
Listed ==
  /\ Len(calls) >= 1
  /\ ~(Len(calls) = 1 /\ pc = "thrown" /\ error = BackendError)

Listing == CHOOSE l \in repoStacks : TRUE

HeadSet(stack) == {stack.heads[k].name : k \in 1..Len(stack.heads)}

Matching(listing, name) == {k \in 1..Len(listing) : name \in HeadSet(listing[k])}

\* Position of the first stack of the listing whose heads contain the name.
FirstMatch(listing, name) ==
  IF Matching(listing, name) = {} THEN 0
  ELSE CHOOSE k \in Matching(listing, name) : \A j \in Matching(listing, name) : k <= j

\* The current run is past the loop over the stacks.
PastLoop == pc \in {"listStackBranches", "execute", "returned", "thrown"}

(***************************************************************************)
(* C1. A request with all = true and a non-empty filePaths list fails with *)
(* the validation error, and no backend call of any kind has been issued   *)
(* when it fails.                                                          *)
(***************************************************************************)
C1_MutualExclusion ==
  (params.all /\ Len(params.filePaths) > 0 /\ pc \notin {"idle", "commit"})
    => /\ pc = "thrown"
       /\ IsValidationError(error)
       /\ calls = <<>>

C1_Witness ==
  /\ params.all /\ Len(params.filePaths) > 0
  /\ pc = "thrown"
  /\ IsValidationError(error)
  /\ calls = <<>>

(***************************************************************************)
(* C2. When the first stack whose heads contain the target has exactly one *)
(* head, the run goes from the loop straight to the dispatch of the commit *)
(* to that branch: no stack_branches fetch is issued and no local error is *)
(* raised, so nothing the fetch could answer affects the resolution.       *)
(***************************************************************************)
C2_SingleHeadFastPath ==
  LET k == FirstMatch(stacks, params.branch) IN
  (stacks # <<>> /\ k # 0 /\ Len(stacks[k].heads) = 1)
    => /\ BranchFetches = {}
       /\ pc \in {"for", "execute", "returned", "thrown"}
       /\ pc = "for" => idx <= k
       /\ pc = "thrown" => (CommitCalls # {} /\ error = BackendError)
       /\ pc \in {"execute", "returned", "thrown"}
            => args = initialArgs(params) \o <<"-s", params.branch>>
       /\ \A c \in CommitCalls : calls[c].args = args

C2_Witness ==
  LET k == FirstMatch(stacks, params.branch) IN
  /\ stacks # <<>> /\ k = 2 /\ Len(stacks[k].heads) = 1
  /\ pc = "returned"
  /\ repoBranches[stacks[k].id] = Unknown
  /\ calls = <<[command |-> "stacks"], [command |-> "commit", args |-> args]>>

(***************************************************************************)
(* C3. When the first matching stack has more than one head and the record *)
(* of the target name in its fetched branch list is flagged archived, the  *)
(* run ends with the conflict error and the commit is never dispatched.    *)
(***************************************************************************)
C3_Precondition ==
  LET k == FirstMatch(stacks, params.branch) IN
  /\ stacks # <<>> /\ k # 0 /\ Len(stacks[k].heads) > 1
  /\ repoBranches[stacks[k].id] # Unknown
  /\ LET list == CHOOSE l \in repoBranches[stacks[k].id] : TRUE IN
     /\ \E j \in 1..Len(list) : list[j].name = params.branch
     /\ \A j \in 1..Len(list) : list[j].name = params.branch => list[j].archived

C3_ArchivedExclusion ==
  C3_Precondition
    => /\ CommitCalls = {}
       /\ pc \in {"for", "listStackBranches", "thrown"}
       /\ (pc = "thrown" /\ error # BackendError)
            => (IsConflictError(error) /\ Mentions(error, params.branch))

C3_Witness ==
  /\ C3_Precondition
  /\ pc = "thrown"
  /\ IsConflictError(error)
  /\ BranchFetches # {}
  /\ CommitCalls = {}

(***************************************************************************)
(* C4 as stated: for every listing, the empty one included, in which no    *)
(* stack's heads contain the target, the run fails with a not-found error  *)
(* whose message mentions the target branch, and no commit is dispatched.  *)
(***************************************************************************)
C4_NoMatch_AsClaimed ==
  (Listed /\ FirstMatch(Listing, params.branch) = 0 /\ pc # "for")
    => /\ pc = "thrown"
       /\ IsNotFoundError(error)
       /\ Mentions(error, params.branch)
       /\ CommitCalls = {}

(***************************************************************************)
(* C4 amended: for every non-empty listing in which no stack's heads       *)
(* contain the target, the run fails with a not-found error that mentions  *)
(* the target branch; for the empty listing it fails with the error        *)
(* "No stacks found", which names no branch; in both cases no commit and   *)
(* no stack_branches fetch is issued.                                      *)
(***************************************************************************)
C4_NoMatch ==
  (Listed /\ FirstMatch(Listing, params.branch) = 0 /\ pc # "for")
    => /\ pc = "thrown"
       /\ IsNotFoundError(error)
       /\ IF Len(Listing) = 0
          THEN error = <<"No stacks found">>
          ELSE Mentions(error, params.branch) /\ " not found in any stack" \in Range(error)
       /\ calls = <<[command |-> "stacks"]>>

C4_Witness ==
  /\ Listed /\ Len(Listing) >= 2 /\ FirstMatch(Listing, params.branch) = 0
  /\ pc = "thrown"
  /\ Mentions(error, params.branch)
  /\ IsNotFoundError(error)

(***************************************************************************)
(* C5. The stacks are examined in listing order and the first stack whose  *)
(* heads contain the target decides the outcome: the loop never moves past *)
(* it, a stack_branches fetch is issued for no other stack, a dispatch     *)
(* goes to it, and an error of its lookup (empty list, missing record,     *)
(* archived) ends the run without a dispatch, whatever later stacks hold.  *)
(***************************************************************************)
C5_FirstMatchOnly ==
  LET k == FirstMatch(stacks, params.branch) IN
  (stacks # <<>> /\ k # 0)
    => /\ idx <= k
       /\ \A c \in BranchFetches : calls[c].stack_id = stacks[k].id
       /\ Cardinality(BranchFetches) <= 1
       /\ PastLoop => idx = k
       /\ pc \in {"execute", "returned"} => outcomes[Len(outcomes)].stack = stacks[k].id
       /\ (pc = "thrown" /\ error # BackendError)
            => /\ CommitCalls = {}
               /\ error \in { <<"No branches found in stack ", ToString(stacks[k].id)>>,
                              <<"Branch ", params.branch, " not found in stack ", ToString(stacks[k].id)>>,
                              <<"Branch ", params.branch, " is archived">> }

\* The first matching stack fails its lookup while a later stack holds the
\* target as its only head.
C5_Witness ==
  LET k == FirstMatch(stacks, params.branch) IN
  /\ stacks # <<>> /\ k = 1 /\ Len(stacks) >= 2
  /\ HeadSet(stacks[2]) = {params.branch} /\ Len(stacks[2].heads) = 1
  /\ pc = "thrown"
  /\ IsNotFoundError(error)
  /\ calls = <<[command |-> "stacks"], [command |-> "stack_branches", stack_id |-> stacks[1].id]>>

(***************************************************************************)
(* C6. In every run of commit() the commit command is dispatched at most   *)
(* once, only as the last backend call and only after the resolution has   *)
(* succeeded, and a run that ends with a validation, not-found or conflict *)
(* error has dispatched no commit command.                                 *)
(***************************************************************************)
C6_SingleDispatch ==
  /\ Cardinality(CommitCalls) <= 1
  /\ \A c \in CommitCalls :
       LET k == FirstMatch(stacks, params.branch) IN
       /\ c = Len(calls)
       /\ calls[1].command = "stacks"
       /\ pc \in {"returned", "thrown"}
       /\ stacks # <<>> /\ k # 0 /\ idx = k
       /\ calls[c].args = initialArgs(params) \o <<"-s", params.branch>>
       /\ Len(stacks[k].heads) # 1 =>
            /\ c = 3
            /\ calls[2] = [command |-> "stack_branches", stack_id |-> stacks[k].id]
            /\ \E list \in repoBranches[stacks[k].id] :
                 \E r \in 1..Len(list) : list[r] = [name |-> params.branch, archived |-> FALSE]
  /\ (pc = "thrown" /\ (IsValidationError(error) \/ IsNotFoundError(error) \/ IsConflictError(error)))
       => CommitCalls = {}
  /\ pc = "returned" => Cardinality(CommitCalls) = 1

C6_Witness ==
  /\ pc = "returned"
  /\ Len(calls) = 3
  /\ Cardinality(CommitCalls) = 1
  /\ calls[2].command = "stack_branches"

(***************************************************************************)
(* C7. For a fixed stack listing and fixed branch lists, any two runs with *)
(* the same request whose fetches were answered end in the same            *)
(* resolution: the same stack and dispatched arguments, or the same error. *)
(***************************************************************************)
C7_Determinism ==
  \A i, j \in 1..Len(outcomes) : outcomes[i] = outcomes[j]

C7_Witness ==
  /\ Len(outcomes) = 2
  /\ outcomes[1].kind = "dispatched"
  /\ outcomes[2].kind = "dispatched"
  /\ Len(calls) = 3
  /\ pc = "returned"

(***************************************************************************)
(* C11. Request de-duplication: for every cache key at most one backend    *)
(* request is in flight, there is one exactly while the key is Fetching,   *)
(* and a read of a key that is Fetching sends no request: it waits for the *)
(* one in flight.                                                          *)
(***************************************************************************)
JoinsInFlight ==
  \A key \in CacheKeys :
    (cache[key] = "Fetching" /\ lastEvent' = [kind |-> "read", key |-> key])
      => /\ requests' = requests
         /\ cache'[key] = "Fetching"

C11_RequestDeduplication ==
  /\ [](\A key \in CacheKeys :
          /\ requests[key] <= 1
          /\ requests[key] = 1 <=> cache[key] = "Fetching")
  /\ [][JoinsInFlight]_vars

\* A key that is being fetched has just been read again.
C11_Witness ==
  \E key \in CacheKeys :
    /\ cache[key] = "Fetching"
    /\ requests[key] = 1
    /\ lastEvent = [kind |-> "read", key |-> key]
    /\ \E other \in CacheKeys \ {key} : cache[other] = "Fresh"

(***************************************************************************)
(* C12 as stated: for one project, two commit dispatches are never in      *)
(* flight at the same time.                                                *)
(***************************************************************************)
C12_CommitSerialization == pending["createCommit"] <= 1

(***************************************************************************)
(* C13. The handler of the 'commit' tool turns every end of a request into *)
(* a result: after commit() has returned, the one text 'Commit successful' *)
(* without an error flag; after parsing, resolution or the backend command *)
(* has failed, exactly one text made of 'Error: ' and the failure's        *)
(* message, with isError = true.                                           *)
(***************************************************************************)
C13_ToolResult ==
  /\ result \in {NoResult, NullResult}
       \/ /\ DOMAIN result \in {{"content"}, {"content", "isError"}}
          /\ Len(result.content) = 1
          /\ result.content[1].type = "text"
  /\ (pc = "returned" /\ result # NoResult)
       => /\ DOMAIN result = {"content"}
          /\ result.content[1].text = <<"Commit successful">>
  /\ (pc = "thrown" /\ result # NoResult)
       => /\ DOMAIN result = {"content", "isError"}
          /\ result.isError = TRUE
          /\ result.content[1].text = <<"Error: ">> \o error
  /\ (pc = "idle" /\ result \notin {NoResult, NullResult})
       => /\ DOMAIN result = {"content", "isError"}
          /\ result.isError = TRUE
          /\ \E message \in ParseErrors : result.content[1].text = <<"Error: ">> \o message
  /\ (pc \in {"returned", "thrown"} /\ result = NoResult) => ENABLED Reply

\* The backend command has failed and the handler has reported its message.
C13_Witness ==
  /\ pc = "thrown"
  /\ error = BackendError
  /\ CommitCalls # {}
  /\ result = [content |-> <<[type |-> "text", text |-> <<"Error: ", "backend command failed">>]>>,
               isError |-> TRUE]

C18_NoCommitToArchived ==
  \A c \in CommitCalls : repoArchived[stacks[idx].id] # Known(TRUE)

(***************************************************************************)
(* C14. For every non-empty explicit path list the diff spec handed to the *)
(* backend, read back from the --diff-spec argument, has one entry per     *)
(* supplied path, in the supplied order with duplicates kept, each with an *)
(* empty hunkHeaders list; building it issues no backend call and touches  *)
(* nothing but the argument list.                                          *)
(***************************************************************************)
\* The DiffSpec array a --diff-spec argument encodes: objects of ten tokens
\* between the brackets, separated by commas.
ParseDiffSpec(tokens) ==
  LET body == SubSeq(tokens, 2, Len(tokens) - 1)
      n == (Len(body) + 1) \div 11
  IN [k \in 1..n |->
        [pathBytes |-> body[(k - 1) * 11 + 4],
         hunkHeaders |-> IF body[(k - 1) * 11 + 8] = "[" /\ body[(k - 1) * 11 + 9] = "]"
                         THEN <<>> ELSE <<"hunks">>]]

C14_DiffSpecConstruction ==
  (~params.all /\ Len(params.filePaths) > 0 /\ pc \notin {"idle", "commit"})
    => /\ Len(args) >= 5
       /\ args[4] = "--diff-spec"
       /\ LET diffSpec == ParseDiffSpec(args[5]) IN
          /\ Len(diffSpec) = Len(params.filePaths)
          /\ \A k \in 1..Len(params.filePaths) :
               diffSpec[k] = [pathBytes |-> params.filePaths[k], hunkHeaders |-> <<>>]
       /\ \A c \in CommitCalls : calls[c].args[5] = args[5]
       /\ pc = "listStacks" => (calls = <<>> /\ stacks = <<>> /\ idx = 0 /\ error = <<>>)

\* A commit of two different paths, the second before the first in the
\* alphabet, has been dispatched.
C14_Witness ==
  /\ ~params.all
  /\ params.filePaths = <<"g", "f">>
  /\ pc = "returned"
  /\ CommitCalls # {}
  /\ ParseDiffSpec(args[5]) =
       <<[pathBytes |-> "g", hunkHeaders |-> <<>>], [pathBytes |-> "f", hunkHeaders |-> <<>>]>>

(***************************************************************************)
(* C15 as stated: a request with all = false and an empty path list fails  *)
(* with a validation error and no commit command is dispatched.            *)
(***************************************************************************)
C15_EmptySelection ==
  (~params.all /\ Len(params.filePaths) = 0)
    => /\ CommitCalls = {}
       /\ pc # "returned"
       /\ pc = "thrown" => (IsValidationError(error) \/ error = BackendError)

(***************************************************************************)
(* C16. When the first matching stack has more than one head and its       *)
(* fetched branch list is empty or holds no record of exactly the target   *)
(* name, the run ends with a not-found error naming the stack and no       *)
(* commit is dispatched; archived flags of other records play no part.     *)
(***************************************************************************)
\* The branch list of the first matching, multi-head stack has arrived in
\* the current run.
C16_Fetched ==
  LET k == FirstMatch(stacks, params.branch) IN
  /\ stacks # <<>> /\ k # 0 /\ Len(stacks[k].heads) > 1
  /\ BranchFetches # {}
  /\ repoBranches[stacks[k].id] # Unknown
  /\ ~(pc = "thrown" /\ error = BackendError /\ CommitCalls = {})

C16_MultiHeadLookupFailures ==
  C16_Fetched =>
    LET k == FirstMatch(stacks, params.branch)
        list == CHOOSE l \in repoBranches[stacks[k].id] : TRUE
    IN /\ Len(list) = 0
            => /\ pc = "thrown"
               /\ error = <<"No branches found in stack ", ToString(stacks[k].id)>>
               /\ CommitCalls = {}
       /\ (Len(list) > 0 /\ \A r \in 1..Len(list) : list[r].name # params.branch)
            => /\ pc = "thrown"
               /\ error = <<"Branch ", params.branch, " not found in stack ", ToString(stacks[k].id)>>
               /\ IsNotFoundError(error) /\ ~IsConflictError(error)
               /\ CommitCalls = {}

\* The fetched list holds only an archived record of another name.
C16_Witness ==
  /\ C16_Fetched
  /\ LET k == FirstMatch(stacks, params.branch)
         list == CHOOSE l \in repoBranches[stacks[k].id] : TRUE
     IN /\ Len(list) = 1
        /\ list[1].name # params.branch
        /\ list[1].archived
  /\ pc = "thrown"
  /\ IsNotFoundError(error)


(***************************************************************************)
(* Vocabulary of the properties of the cache layer.                        *)
(***************************************************************************)
CommitFulfilled == [kind |-> "fulfilled", endpoint |-> "createCommit"]

BecomesStale(key) == cache[key] # "Stale" /\ cache'[key] = "Stale"

(***************************************************************************)
(* C8. A successful createCommit leaves every entry whose only tag is      *)
(* Stacks (the getStacks reads) Fresh, and every entry it makes Stale      *)
(* carries one of the tags StackBranches, Commit or CommitChanges.         *)
(***************************************************************************)
C8_InvalidationPrecision ==
  [][lastEvent' = CommitFulfilled =>
       \A key \in CacheKeys :
         /\ (providesTags(key.endpoint) = {"Stacks"} /\ cache[key] = "Fresh")
              => cache'[key] = "Fresh"
         /\ BecomesStale(key)
              => providesTags(key.endpoint) \cap {"StackBranches", "Commit", "CommitChanges"} # {}
    ]_vars

\* A createCommit has just been acknowledged: the stack listing is still
\* Fresh and a stack's branch list has become Stale.
C8_Witness ==
  /\ lastEvent = CommitFulfilled
  /\ \E key \in CacheKeys : key.endpoint = "getStacks" /\ cache[key] = "Fresh"
  /\ \E key \in CacheKeys : key.endpoint = "getStackBranches" /\ cache[key] = "Stale"

(***************************************************************************)
(* C9 as stated: after a successful createCommit every Fresh entry of the  *)
(* stack-branches read and every Fresh entry of the commit-changes read    *)
(* has become Stale; and a Fresh read becomes Stale exactly when a         *)
(* mutation whose invalidated tags overlap its provided tags commits.      *)
(***************************************************************************)
C9_InvalidationCoverage ==
  [][/\ lastEvent' = CommitFulfilled =>
          \A key \in CacheKeys :
            (key.endpoint \in {"getStackBranches", "getCommitChanges"} /\ cache[key] = "Fresh")
              => cache'[key] = "Stale"
     /\ \A key \in CacheKeys :
          cache[key] = "Fresh" =>
            (cache'[key] = "Stale"
               <=> (lastEvent'.kind = "fulfilled" /\ overlaps(key, lastEvent'.endpoint)))
    ]_vars

(***************************************************************************)
(* C10. The start of a mutation and its failure with any error change the  *)
(* state of no cache entry; an entry turns Stale only in the step that     *)
(* acknowledges a mutation, and that one step turns every Fresh entry with *)
(* an overlapping tag Stale, leaving none of them Fresh.                   *)
(***************************************************************************)
C10_InvalidationOnSuccessOnly ==
  [][/\ lastEvent'.kind \in {"started", "rejected"} => cache' = cache
     /\ \A key \in CacheKeys : BecomesStale(key) => lastEvent'.kind = "fulfilled"
     /\ lastEvent'.kind = "fulfilled" =>
          \A key \in CacheKeys :
            (cache[key] = "Fresh" /\ overlaps(key, lastEvent'.endpoint)) => cache'[key] = "Stale"
    ]_vars

\* A createCommit has just failed while a stack's branch list, which it
\* would have invalidated, is Fresh, and another mutation is still in flight.
C10_Witness ==
  /\ lastEvent.kind = "rejected"
  /\ lastEvent.endpoint = "createCommit"
  /\ InFlight > 0
  /\ \E key \in CacheKeys : key.endpoint = "getStackBranches" /\ cache[key] = "Fresh"

====
